---- MODULE Spec2Model ----
(***************************************************************************)
(* Voice-presence state machine of cucia/Auto-Level-up                     *)
(* (src/voice_module.py, with DiscordGateway.join_vc of src/main.py).      *)
(*                                                                         *)
(* Three kinds of asyncio coroutines share the fields of one VoiceModule:  *)
(*   - the control loop VoiceModule.run,                                   *)
(*   - one task per gateway notification, VoiceModule.on_voice_state_update*)
(*   - VoiceModule.stop.                                                   *)
(* asyncio is cooperative: a coroutine runs without interruption from one  *)
(* await to the next, so every action below is the code between two        *)
(* awaits.  Time is counted in seconds; every asyncio.sleep(d) is a timer  *)
(* that must run down to 0 before the coroutine resumes, while the gateway *)
(* calls (connect, disconnect) take an arbitrary time.                     *)
(*                                                                         *)
(* The discord library is outside the repository.  Of it the model keeps:  *)
(*   - vc.connect() returns a new connected client, raises "Already        *)
(*     connected", or raises another error: the choice is the gateway's;   *)
(*   - vc.disconnect(force=True) ends with that client not connected and   *)
(*     not playing, whether it raises or not (leave_voice swallows the     *)
(*     exception), and leaves any other client alone;                      *)
(*   - the target channel resolves (get_target_vc() is not None);          *)
(*   - len(vc.members), vc.play() and vc.stop() return normally in Spec    *)
(*     and may raise in FaultSpec.                                         *)
(***************************************************************************)
EXTENDS Integers, FiniteSets

\* ----------------------------------------------------------------- bounds
\* number of notification tasks that can be suspended in leave_voice at the
\* same time (a task that returns without an await needs no slot)
NumHandlers == 1
\* configuration of one run (VOICE_BASE_STAY_SEC, VOICE_JITTER_SEC,
\* VOICE_COOLDOWN_SEC, VOICE_BUSY_RETRY_SEC), in seconds
base_stay == 31
jitter == 1
cooldown == 3
busy_retry == 2
\* number of times the gateway delivers one notification (at-least-once
\* delivery) when its handling is looked at on its own
MaxDeliveries == 2

\* ------------------------------------------------------ program constants
ManualSleepSec == 10
PollSleepSec == 15
StayTickSec == 30
ErrorSleepSec == 60
SettleSec == 2
ConflictSettleSec == 1
RetryDelaySec == 5
MaxAttempts == 3

NoTime == -1
NoClient == 0

States == {"IDLE", "CONNECTED", "BUSY_WAIT", "MANUAL_SLEEP"}
Events == {"MovedAway", "MovedNone", "OtherJoined"}
Outcomes == {"ok", "already", "error"}

VARIABLES
    state,            \* VoiceModule.state
    elapsed,          \* time.time() - connected_since as line 192 reads it; NoTime when connected_since is None
    running,          \* VoiceModule.running
    voice_client,     \* the connected client of gateway.client.voice_clients, or NoClient
    playing,          \* vc.is_playing() of that client
    others,           \* TRUE when an identity other than self is in the target channel
    window,           \* "before", "in", "after" the night window (in_night_window)
    loop,             \* position of VoiceModule.run
    handlers,         \* positions of the on_voice_state_update tasks
    stopper,          \* position of VoiceModule.stop
    since_release,    \* seconds since run() finished a release, while < cooldown
    probe,            \* the notification whose repeated delivery is observed, if any
    echo              \* TRUE while the gateway's report of a release made by the
                      \* module itself is on its way (EchoSpec)

vars == <<state, elapsed, running, voice_client, playing, others, window,
          loop, handlers, stopper, since_release, probe, echo>>

\* the variables that the program does not read: the two that observe it,
\* and the report of its own releases, which only EchoSpec has the gateway
\* make
observers == <<since_release, probe, echo>>

\* the tasks of on_voice_state_update that can exist at the same time
HandlerIds == DOMAIN handlers

\* no notification is singled out
NoProbe == [ev |-> "none", state0 |-> "none", client0 |-> NoClient, n |-> 0]

\* ---------------------------------------------------------------- helpers

\* VoiceModule.in_night_window: 02:00 <= now < 07:00
in_night_window == window = "in"

\* VoiceModule.active_voice_client: the first connected client, or None
active_voice_client == voice_client

\* len(vc.members) == 0: nobody is in the target channel, self included
TargetEmpty == ~others /\ voice_client = NoClient

\* the clients some coroutine still holds a reference to
HeldClients ==
    {voice_client, loop.vc, stopper.vc} \cup {handlers[h].vc : h \in HandlerIds}

\* a client object distinct from every client still referenced
FreshClient == CHOOSE c \in 1..(NumHandlers + 3) : c \notin HeldClients

Sleeping(pc, d) == [pc |-> pc, timer |-> d, attempt |-> 0, stay_time |-> 0, vc |-> NoClient]

IdleHandler == [pc |-> "free", ev |-> "none", timer |-> 0, vc |-> NoClient]

\* mutant of start_audio: the keep-alive is never started
start_audio_skipped(c) == playing

\* VoiceModule.start_audio with c the client active_voice_client() returns:
\* the playing flag after the call
start_audio(c) == IF c = NoClient THEN playing ELSE TRUE

\* VoiceModule.stop_audio: the playing flag after the call
stop_audio == IF active_voice_client # NoClient /\ playing THEN FALSE ELSE playing

\* vc.disconnect(force=True) of client v has completed: v is no longer
\* connected (and no longer plays); another client is not touched
ClientAfterDisconnect(v) == IF voice_client = v THEN NoClient ELSE voice_client
PlayingAfterDisconnect(v) == IF voice_client = v THEN FALSE ELSE playing

\* VoiceModule.leave_voice up to its first await: stop_audio() has run, and
\* the coroutine waits for the disconnect of the client in voice_clients, or,
\* with no client, sleeps the settle delay
LeaveVoiceEnter(rec) ==
    IF voice_client # NoClient
    THEN [rec EXCEPT !.pc = "lv_disc", !.vc = voice_client]
    ELSE [rec EXCEPT !.pc = "lv_sleep", !.timer = SettleSec]

\* leave_voice after the disconnect: await asyncio.sleep(2)
LeaveVoiceSettle(rec) == [rec EXCEPT !.pc = "lv_sleep", !.timer = SettleSec, !.vc = NoClient]

\* ------------------------------------------------------------------- Init

Init ==
    /\ state = "IDLE"
    /\ elapsed = NoTime
    /\ running = FALSE
    /\ voice_client = NoClient
    /\ playing = FALSE
    /\ others \in BOOLEAN
    /\ window \in {"before", "in"}
    /\ loop = Sleeping("init", 0)
    /\ handlers = [h \in 1..NumHandlers |-> IdleHandler]
    /\ stopper = [pc |-> "idle", timer |-> 0, vc |-> NoClient]
    /\ since_release = NoTime
    /\ probe = NoProbe
    /\ echo = FALSE

\* ------------------------------------------------- notification handlers

\* a task of on_voice_state_update starts and runs to its first await.
\* "MovedAway": member is self and after.channel is another channel;
\* "MovedNone": member is self and after.channel is None;
\* "OtherJoined": member is not self and after.channel is the target (the
\* identity has just joined, or the notification of a join is repeated).
HandlerBody(h, ev) ==
    IF ev = "MovedAway" /\ state # "MANUAL_SLEEP"
    THEN /\ state' = "MANUAL_SLEEP"
         /\ playing' = stop_audio
         /\ handlers' = [handlers EXCEPT ![h] = LeaveVoiceEnter([IdleHandler EXCEPT !.ev = ev])]
    ELSE IF ev = "MovedNone" /\ state = "MANUAL_SLEEP"
    THEN /\ state' = "IDLE"
         /\ UNCHANGED <<playing, handlers>>
    ELSE IF ev = "OtherJoined" /\ state = "CONNECTED"
    THEN /\ playing' = stop_audio
         /\ handlers' = [handlers EXCEPT ![h] = LeaveVoiceEnter([IdleHandler EXCEPT !.ev = ev])]
         /\ state' = state
    ELSE UNCHANGED <<state, playing, handlers>>

\* the handler of ev reaches an await (leave_voice) instead of returning
Suspends(ev) ==
    \/ ev = "MovedAway" /\ state # "MANUAL_SLEEP"
    \/ ev = "OtherJoined" /\ state = "CONNECTED"

FreeHandlers == {h \in HandlerIds : handlers[h].pc = "free"}

\* a task is created for notification ev and runs to its first await, or
\* to its end
TaskStarts(ev) ==
    /\ loop.pc # "init"
    /\ Suspends(ev) => FreeHandlers # {}
    /\ others' = (others \/ ev = "OtherJoined")
    /\ IF Suspends(ev)
       THEN HandlerBody(CHOOSE h \in FreeHandlers : \A g \in FreeHandlers : h <= g, ev)
       ELSE HandlerBody(1, ev)
    /\ UNCHANGED <<elapsed, running, voice_client, window, loop, stopper>>

\* the gateway delivers a notification
Deliver(ev) ==
    /\ TaskStarts(ev)
    /\ UNCHANGED observers

\* the disconnect awaited in leave_voice returns to the handler
HandlerDisconnects(h) ==
    /\ handlers[h].pc = "lv_disc"
    /\ voice_client' = ClientAfterDisconnect(handlers[h].vc)
    /\ playing' = PlayingAfterDisconnect(handlers[h].vc)
    /\ handlers' = [handlers EXCEPT ![h] = LeaveVoiceSettle(@)]
    /\ UNCHANGED <<state, elapsed, running, others, window, loop, stopper>>

HandlerDisconnected(h) ==
    /\ HandlerDisconnects(h)
    /\ UNCHANGED observers

\* mutant of StateAfterLeave: the handler of OtherJoinedTarget does not set
\* BUSY_WAIT
StateAfterLeave_KeepsState(ev) == state

\* the state a handler leaves behind once its leave_voice has returned
StateAfterLeave(ev) == IF ev = "OtherJoined" THEN "BUSY_WAIT" ELSE state

\* the tasks that stay suspended when task h ends, oldest first (the order
\* in which the slots are filled)
WithoutHandler(h) ==
    LET busy == {g \in HandlerIds : g # h /\ handlers[g].pc # "free"}
        nth(i) == CHOOSE g \in busy : Cardinality({k \in busy : k < g}) = i - 1
    IN  [i \in HandlerIds |-> IF i <= Cardinality(busy) THEN handlers[nth(i)] ELSE IdleHandler]

\* the settle delay is over: connected_since = None, and the handler of
\* OtherJoined sets BUSY_WAIT; the task ends
HandlerSettled(h) ==
    /\ handlers[h].pc = "lv_sleep"
    /\ handlers[h].timer = 0
    /\ elapsed' = NoTime
    /\ state' = StateAfterLeave(handlers[h].ev)
    /\ handlers' = WithoutHandler(h)
    /\ UNCHANGED <<running, voice_client, playing, others, window, loop, stopper>>
    /\ UNCHANGED observers

\* ------------------------------------------------------------------- stop

StopCall ==
    /\ stopper.pc = "idle"
    /\ loop.pc # "init"
    /\ running' = FALSE
    /\ playing' = stop_audio
    /\ stopper' = LeaveVoiceEnter(stopper)
    /\ UNCHANGED <<state, elapsed, voice_client, others, window, loop, handlers>>
    /\ UNCHANGED observers

StopDisconnected ==
    /\ stopper.pc = "lv_disc"
    /\ voice_client' = ClientAfterDisconnect(stopper.vc)
    /\ playing' = PlayingAfterDisconnect(stopper.vc)
    /\ stopper' = LeaveVoiceSettle(stopper)
    /\ UNCHANGED <<state, elapsed, running, others, window, loop, handlers>>
    /\ UNCHANGED observers

StopSettled ==
    /\ stopper.pc = "lv_sleep"
    /\ stopper.timer = 0
    /\ elapsed' = NoTime
    /\ stopper' = [stopper EXCEPT !.pc = "done"]
    /\ UNCHANGED <<state, running, voice_client, playing, others, window, loop, handlers>>
    /\ UNCHANGED observers

\* ----------------------------------------------------------- control loop

\* pcs of the two stay loops (lines 186-187 and 191-194)
StayLoops == {"stay_night", "stay_fixed"}

\* pcs at which run() sleeps before it goes back to `while self.running`
TopSleeps == {"sleep_manual", "sleep_busy", "sleep_poll", "sleep_failed",
              "cooldown", "err_sleep"}

\* DiscordGateway.join_vc up to its first await.  leave_vc() finds no client
\* (run has just seen active_voice_client() return None), so the first
\* vc.connect() is awaited at once.
JoinVcEnter == [Sleeping("connect", 0) EXCEPT !.attempt = 0]

\* the occupancy test run() makes before it goes on to join (lines 153-159)
TargetBusy == state = "BUSY_WAIT" /\ ~TargetEmpty

\* mutant of LoopBody: the test of MANUAL_SLEEP (line 143) is missing
LoopBody_IgnoresOverride ==
    IF TargetBusy
    THEN /\ loop' = Sleeping("sleep_busy", busy_retry)
         /\ state' = state
    ELSE /\ state' = IF state = "BUSY_WAIT" THEN "IDLE" ELSE state
         /\ loop' = IF active_voice_client # NoClient
                    THEN Sleeping("sleep_poll", PollSleepSec)
                    ELSE JoinVcEnter

\* one iteration of `while self.running` from the top of the try block to
\* its first await (lines 143-166)
LoopBody ==
    IF state = "MANUAL_SLEEP"
    THEN /\ loop' = Sleeping("sleep_manual", ManualSleepSec)
         /\ state' = state
    ELSE IF TargetBusy
    THEN /\ loop' = Sleeping("sleep_busy", busy_retry)
         /\ state' = state
    ELSE /\ state' = IF state = "BUSY_WAIT" THEN "IDLE" ELSE state
         /\ loop' = IF active_voice_client # NoClient
                    THEN Sleeping("sleep_poll", PollSleepSec)
                    ELSE JoinVcEnter

\* `while self.running:` (line 141)
LoopTop ==
    IF running
    THEN LoopBody
    ELSE loop' = Sleeping("exited", 0) /\ state' = state

\* run() is started: self.running = True, then the first iteration
RunStart ==
    /\ loop.pc = "init"
    /\ running' = TRUE
    /\ LoopBody
    /\ UNCHANGED <<elapsed, voice_client, playing, others, window, handlers, stopper>>
    /\ UNCHANGED observers

\* a sleep that ends an iteration is over: the next iteration starts
WakeToTop ==
    /\ loop.pc \in TopSleeps
    /\ loop.timer = 0
    /\ LoopTop
    /\ UNCHANGED <<elapsed, running, voice_client, playing, others, window, handlers, stopper>>
    /\ UNCHANGED observers

\* mutant of JoinFailed: the state is left as it was
JoinFailed_KeepsState ==
    /\ state' = state
    /\ loop' = Sleeping("sleep_failed", busy_retry)
    /\ UNCHANGED <<elapsed, voice_client, playing>>

\* lines 168-173: join_vc returned without a connected client
JoinFailed ==
    /\ state' = "BUSY_WAIT"
    /\ loop' = Sleeping("sleep_failed", busy_retry)
    /\ UNCHANGED <<elapsed, voice_client, playing>>

\* the values of random.randint(0, self.jitter)
JitterValues == 0..jitter

\* the block "leave" (lines 197-201) up to its first await, entered with the
\* fields as they are now; with state # CONNECTED the iteration ends
\* without an await and the next one starts
LeaveBlock ==
    IF state = "CONNECTED"
    THEN /\ playing' = stop_audio
         /\ loop' = LeaveVoiceEnter(Sleeping("lv_disc", 0))
         /\ state' = state
    ELSE /\ playing' = playing
         /\ LoopTop

\* lines 176-194 after a successful join: connected_since, state, keep-alive
\* and the retention policy, up to the first await
Connected(c) ==
    /\ voice_client' = c
    /\ elapsed' = 0
    /\ state' = "CONNECTED"
    /\ IF ~running
       THEN \* both stay loops are skipped: start_audio() is followed at once
            \* by the stop_audio() of leave_voice
            /\ playing' = FALSE
            /\ loop' = [Sleeping("lv_disc", 0) EXCEPT !.vc = c]
       ELSE /\ playing' = start_audio(c)
            /\ IF in_night_window
               THEN loop' = Sleeping("stay_night", StayTickSec)
               ELSE \E j \in JitterValues :
                       loop' = [Sleeping("stay_fixed", StayTickSec)
                                   EXCEPT !.stay_time = base_stay + j]

\* vc.connect() returns or raises (lines 114-129)
ConnectDone(outcome) ==
    /\ loop.pc = "connect"
    /\ CASE outcome = "ok" -> Connected(FreshClient)
         [] outcome = "already" ->
              /\ loop' = [loop EXCEPT !.pc = "conflict_settle", !.timer = ConflictSettleSec]
              /\ UNCHANGED <<state, elapsed, voice_client, playing>>
         [] outcome = "error" ->
              IF loop.attempt < MaxAttempts - 1
              THEN /\ loop' = [loop EXCEPT !.pc = "retry_sleep", !.timer = RetryDelaySec]
                   /\ UNCHANGED <<state, elapsed, voice_client, playing>>
              ELSE JoinFailed
    /\ UNCHANGED <<running, others, window, handlers, stopper>>
    /\ UNCHANGED observers

\* "Already connected": leave_vc() found no client, asyncio.sleep(1) is over
ConflictSettled ==
    /\ loop.pc = "conflict_settle"
    /\ loop.timer = 0
    /\ IF loop.attempt < MaxAttempts - 1
       THEN /\ loop' = [loop EXCEPT !.pc = "retry_sleep", !.timer = RetryDelaySec]
            /\ UNCHANGED <<state, elapsed, voice_client, playing>>
       ELSE JoinFailed
    /\ UNCHANGED <<running, others, window, handlers, stopper>>
    /\ UNCHANGED observers

\* mutant of RetryWake: the acquisition is started over from inside join_vc
RetryWake_Restarts ==
    /\ loop.pc = "retry_sleep"
    /\ loop.timer = 0
    /\ loop' = [loop EXCEPT !.pc = "connect", !.attempt = 0]
    /\ UNCHANGED <<state, elapsed, running, voice_client, playing, others, window,
                   handlers, stopper>>
    /\ UNCHANGED observers

\* asyncio.sleep(5) between two attempts is over: the next vc.connect()
RetryWake ==
    /\ loop.pc = "retry_sleep"
    /\ loop.timer = 0
    /\ loop' = [loop EXCEPT !.pc = "connect", !.attempt = @ + 1]
    /\ UNCHANGED <<state, elapsed, running, voice_client, playing, others, window,
                   handlers, stopper>>
    /\ UNCHANGED observers

\* mutant of StayNightCondition: the window is not looked at again
StayNightCondition_IgnoresWindow == running /\ state = "CONNECTED"

\* the condition of the night stay loop (line 186)
StayNightCondition == running /\ state = "CONNECTED" /\ in_night_window

\* a tick of the night-window stay loop (lines 186-187)
StayNightWake ==
    /\ loop.pc = "stay_night"
    /\ loop.timer = 0
    /\ IF StayNightCondition
       THEN /\ loop' = [loop EXCEPT !.timer = StayTickSec]
            /\ UNCHANGED <<state, playing>>
       ELSE LeaveBlock
    /\ UNCHANGED <<elapsed, running, voice_client, others, window, handlers, stopper>>
    /\ UNCHANGED observers

\* mutant of Expired: the stay is over at the first tick
Expired_AtFirstTick == elapsed >= StayTickSec

\* `time.time() - self.connected_since >= stay_time` (line 192)
Expired == elapsed >= loop.stay_time

\* mutant of ErrorBackoff: the error escapes and run() ends
ErrorBackoff_Escapes == Sleeping("exited", 0)

\* the except clause of run() (lines 203-205): asyncio.sleep(60), then the
\* next iteration
ErrorBackoff == Sleeping("err_sleep", ErrorSleepSec)

\* a tick of the fixed-duration stay loop (lines 191-194); the subtraction
\* raises TypeError when connected_since is None, which the except clause
\* of run() turns into asyncio.sleep(60)
StayFixedWake ==
    /\ loop.pc = "stay_fixed"
    /\ loop.timer = 0
    /\ IF running /\ state = "CONNECTED"
       THEN IF elapsed = NoTime
            THEN /\ loop' = ErrorBackoff
                 /\ UNCHANGED <<state, playing>>
            ELSE IF Expired
            THEN LeaveBlock
            ELSE /\ loop' = [loop EXCEPT !.timer = StayTickSec]
                 /\ UNCHANGED <<state, playing>>
       ELSE LeaveBlock
    /\ UNCHANGED <<elapsed, running, voice_client, others, window, handlers, stopper>>
    /\ UNCHANGED observers

\* the disconnect awaited in the loop's leave_voice returns
LoopDisconnected ==
    /\ loop.pc = "lv_disc"
    /\ voice_client' = ClientAfterDisconnect(loop.vc)
    /\ playing' = PlayingAfterDisconnect(loop.vc)
    /\ loop' = LeaveVoiceSettle(loop)
    /\ UNCHANGED <<state, elapsed, running, others, window, handlers, stopper>>
    /\ UNCHANGED observers

\* mutant of CooldownSleep: the cooldown is not waited for
CooldownSleep_Skipped == Sleeping("cooldown", 0)

\* the sleep that follows the release of line 199
CooldownSleep == Sleeping("cooldown", cooldown)

\* the loop's leave_voice returns: state = "IDLE", asyncio.sleep(cooldown)
LoopSettled ==
    /\ loop.pc = "lv_sleep"
    /\ loop.timer = 0
    /\ elapsed' = NoTime
    /\ state' = "IDLE"
    /\ loop' = CooldownSleep
    /\ UNCHANGED <<running, voice_client, playing, others, window, handlers, stopper>>
    /\ since_release' = IF cooldown > 0 THEN 0 ELSE NoTime
    /\ probe' = probe
    /\ echo' = echo

\* ------------------------------------------------------------ environment

\* the last identity other than self leaves the target channel (its
\* notification matches no branch of on_voice_state_update)
OtherLeaves ==
    /\ others
    /\ others' = FALSE
    /\ UNCHANGED <<state, elapsed, running, voice_client, playing, window, loop,
                   handlers, stopper>>
    /\ UNCHANGED observers

\* the local time reaches 02:00
WindowOpens ==
    /\ window = "before"
    /\ window' = "in"
    /\ UNCHANGED <<state, elapsed, running, voice_client, playing, others, loop,
                   handlers, stopper>>
    /\ UNCHANGED observers

\* the local time reaches 07:00
WindowCloses ==
    /\ window = "in"
    /\ window' = "after"
    /\ UNCHANGED <<state, elapsed, running, voice_client, playing, others, loop,
                   handlers, stopper>>
    /\ UNCHANGED observers

\* the pcs at which a coroutine is inside asyncio.sleep
LoopSleeps == TopSleeps \cup {"conflict_settle", "retry_sleep", "stay_night",
                              "stay_fixed", "lv_sleep"}

Countdown(rec) == IF rec.pc \in LoopSleeps THEN [rec EXCEPT !.timer = @ - 1] ELSE rec

\* the largest value of elapsed the loop distinguishes
ElapsedCap == base_stay + jitter

\* one second passes; a sleep that is over resumes before time goes on.
\* connected_since is read at line 192 only, by the fixed stay loop, which
\* is entered with connected_since = now: elapsed is counted while that loop
\* runs, and up to the largest stay_time.
Tick ==
    /\ loop.pc \in LoopSleeps => loop.timer > 0
    /\ stopper.pc = "lv_sleep" => stopper.timer > 0
    /\ \A h \in HandlerIds : handlers[h].pc = "lv_sleep" => handlers[h].timer > 0
    /\ loop' = Countdown(loop)
    /\ stopper' = Countdown(stopper)
    /\ handlers' = [h \in HandlerIds |-> Countdown(handlers[h])]
    /\ elapsed' = IF elapsed = NoTime \/ elapsed >= ElapsedCap \/ loop.pc # "stay_fixed"
                  THEN elapsed ELSE elapsed + 1
    /\ UNCHANGED <<state, running, voice_client, playing, others, window>>
    /\ since_release' = IF since_release = NoTime \/ since_release + 1 >= cooldown
                        THEN NoTime ELSE since_release + 1
    /\ probe' = probe
    /\ echo' = echo

Next ==
    \/ RunStart
    \/ WakeToTop
    \/ \E o \in Outcomes : ConnectDone(o)
    \/ ConflictSettled
    \/ RetryWake
    \/ StayNightWake
    \/ StayFixedWake
    \/ LoopDisconnected
    \/ LoopSettled
    \/ \E ev \in Events : Deliver(ev)
    \/ \E h \in HandlerIds : HandlerDisconnected(h)
    \/ \E h \in HandlerIds : HandlerSettled(h)
    \/ StopCall
    \/ StopDisconnected
    \/ StopSettled
    \/ OtherLeaves
    \/ WindowOpens
    \/ WindowCloses
    \/ Tick

Spec == Init /\ [][Next]_vars

\* the steps of run(): it is resumed when its sleep is over, and the
\* connect or disconnect it awaits returns or raises after a finite time
LoopStep ==
    \/ RunStart
    \/ WakeToTop
    \/ \E o \in Outcomes : ConnectDone(o)
    \/ ConflictSettled
    \/ RetryWake
    \/ StayNightWake
    \/ StayFixedWake
    \/ LoopDisconnected
    \/ LoopSettled

\* the steps of a suspended notification task, and of stop() once called
HandlerStep(h) == HandlerDisconnected(h) \/ HandlerSettled(h)
StopStep == StopDisconnected \/ StopSettled

\* Spec with the scheduling of asyncio: every coroutine that can resume does
\* resume and time goes on.  No fairness is asked of the notifications, of
\* the call of stop(), of the other members or of the night window.
LiveSpec ==
    /\ Spec
    /\ WF_vars(LoopStep)
    /\ \A h \in 1..NumHandlers : WF_vars(HandlerStep(h))
    /\ WF_vars(StopStep)
    /\ WF_vars(Tick)

\* ------------------------------------------------ errors of the library
\* Spec lets the calls of the discord library that run() makes outside
\* join_vc and outside the try block of leave_voice return normally.
\* FaultSpec adds the runs in which one of them raises.

\* len(vc.members) raises (line 154, evaluated in BUSY_WAIT only)
QueryRaises ==
    /\ loop.pc \in TopSleeps
    /\ loop.timer = 0
    /\ running
    /\ state = "BUSY_WAIT"
    /\ loop' = ErrorBackoff
    /\ UNCHANGED <<state, elapsed, running, voice_client, playing, others, window,
                   handlers, stopper>>
    /\ UNCHANGED observers

\* vc.connect() has returned and vc.play() raises in start_audio (line 181),
\* after connected_since and state have been written (lines 176-177)
PlayRaises ==
    /\ loop.pc = "connect"
    /\ voice_client' = FreshClient
    /\ elapsed' = 0
    /\ state' = "CONNECTED"
    /\ loop' = ErrorBackoff
    /\ UNCHANGED <<running, playing, others, window, handlers, stopper>>
    /\ UNCHANGED observers

\* a stay loop has ended with state CONNECTED and vc.stop() raises in the
\* stop_audio of the loop's leave_voice (line 199)
ReleaseRaises ==
    /\ loop.pc \in StayLoops
    /\ loop.timer = 0
    /\ state = "CONNECTED"
    /\ IF loop.pc = "stay_night"
       THEN ~StayNightCondition
       ELSE ~running \/ (elapsed # NoTime /\ Expired)
    /\ active_voice_client # NoClient /\ playing
    /\ loop' = ErrorBackoff
    /\ UNCHANGED <<state, elapsed, running, voice_client, playing, others, window,
                   handlers, stopper>>
    /\ UNCHANGED observers

FaultNext == Next \/ QueryRaises \/ PlayRaises \/ ReleaseRaises

FaultSpec == Init /\ [][FaultNext]_vars

\* ------------------------------------------- reports of the own release
\* EchoSpec is Spec with a gateway that reports the release made by a
\* notification task as a presence change of self to no channel: the
\* notification that on_voice_state_update reads as the end of the manual
\* session.  The notifications Spec delivers stay as they are, those of the
\* operator ending the manual session among them.

\* the disconnect awaited by a notification task returns; if it ended a
\* connected client, the gateway has its report to deliver
ReleaseReported(h) ==
    /\ HandlerDisconnects(h)
    /\ echo' = (echo \/ (handlers[h].vc # NoClient /\ voice_client = handlers[h].vc))
    /\ UNCHANGED <<since_release, probe>>

\* the gateway delivers the report of the own release
EchoDelivered ==
    /\ echo
    /\ TaskStarts("MovedNone")
    /\ echo' = FALSE
    /\ UNCHANGED <<since_release, probe>>

EchoNext ==
    \/ RunStart
    \/ WakeToTop
    \/ \E o \in Outcomes : ConnectDone(o)
    \/ ConflictSettled
    \/ RetryWake
    \/ StayNightWake
    \/ StayFixedWake
    \/ LoopDisconnected
    \/ LoopSettled
    \/ \E ev \in Events : Deliver(ev)
    \/ \E h \in HandlerIds : ReleaseReported(h)
    \/ \E h \in HandlerIds : HandlerSettled(h)
    \/ EchoDelivered
    \/ StopCall
    \/ StopDisconnected
    \/ StopSettled
    \/ OtherLeaves
    \/ WindowOpens
    \/ WindowCloses
    \/ Tick

EchoSpec == Init /\ [][EchoNext]_vars

\* --------------------------------------- the handling of one notification
\* The handling of one notification taken on its own: run() is suspended in
\* a sleep or in a join for as long as the handling lasts, stop() is not
\* called, and the gateway delivers the same notification up to
\* MaxDeliveries times, each delivery in a task of its own.

\* states of Spec in which run() is suspended, one for each value of state
Scenes ==
    {[state |-> "IDLE", client |-> NoClient, elapsed |-> NoTime, loop |-> JoinVcEnter],
     [state |-> "CONNECTED", client |-> 1, elapsed |-> 0,
      loop |-> Sleeping("stay_night", StayTickSec)],
     [state |-> "BUSY_WAIT", client |-> NoClient, elapsed |-> NoTime,
      loop |-> Sleeping("sleep_busy", busy_retry)],
     [state |-> "MANUAL_SLEEP", client |-> NoClient, elapsed |-> NoTime,
      loop |-> Sleeping("sleep_manual", ManualSleepSec)]}

HandlingInit ==
    \E sc \in Scenes, ev \in Events :
       /\ state = sc.state
       /\ elapsed = sc.elapsed
       /\ running = TRUE
       /\ voice_client = sc.client
       /\ playing = (sc.client # NoClient)
       /\ others \in BOOLEAN
       /\ window = "in"
       /\ loop = sc.loop
       /\ handlers = [h \in 1..MaxDeliveries |-> IdleHandler]
       /\ stopper = [pc |-> "idle", timer |-> 0, vc |-> NoClient]
       /\ since_release = NoTime
       /\ probe = [ev |-> ev, state0 |-> sc.state, client0 |-> sc.client, n |-> 0]
       /\ echo = FALSE

\* the gateway delivers the observed notification once more
DeliverAgain ==
    /\ probe.ev \in Events
    /\ probe.n < MaxDeliveries
    /\ TaskStarts(probe.ev)
    /\ probe' = [probe EXCEPT !.n = @ + 1]
    /\ UNCHANGED <<since_release, echo>>

HandlingNext ==
    \/ DeliverAgain
    \/ \E h \in HandlerIds : HandlerDisconnected(h)
    \/ \E h \in HandlerIds : HandlerSettled(h)
    \/ Tick

HandlingSpec == HandlingInit /\ [][HandlingNext]_vars

\* ----------------------------------------------------------------- claims

\* the step in which run() calls gateway.join_vc (line 166)
JoinCalled ==
    /\ loop.pc \notin {"connect", "conflict_settle", "retry_sleep"}
    /\ loop'.pc = "connect"

\* the automation holds a Session: a connected voice client exists
SessionHeld == voice_client # NoClient

\* C1: run() calls join_vc only when no identity other than self is in the
\* target, whatever the state the iteration started in.
C1_JoinOnlyWhenEmpty == [][JoinCalled => ~others]_vars

\* the step in which the task handling notification ev ends
HandlerEnds(ev) ==
    \/ \E h \in HandlerIds :
          /\ handlers[h].pc = "lv_sleep"
          /\ handlers[h].ev = ev
          /\ HandlerSettled(h)
    \/ Deliver(ev) /\ handlers' = handlers

\* C2: when the handling of SelfMovedAway(destination # target) ends, the
\* state is MANUAL_SLEEP and no Session is held.
C2_MovedAwayEndsInOverride ==
    [][HandlerEnds("MovedAway") => state' = "MANUAL_SLEEP" /\ ~SessionHeld']_vars

\* C3: the state leaves MANUAL_SLEEP only in the handling of
\* SelfMovedAway(none), and then for IDLE.
C3_OverrideLeftOnlyByMovedNone ==
    [][state = "MANUAL_SLEEP" /\ state' # "MANUAL_SLEEP"
          => Deliver("MovedNone") /\ state' = "IDLE"]_vars

\* C4: a Session is held if and only if the state is CONNECTED.
C4_SessionIffConnected == SessionHeld <=> state = "CONNECTED"

ReleaseInFlight(c) ==
    \/ loop.pc = "lv_disc" /\ loop.vc = c
    \/ stopper.pc = "lv_disc" /\ stopper.vc = c
    \/ \E h \in HandlerIds : handlers[h].pc = "lv_disc" /\ handlers[h].vc = c

LoopInTransition ==
    loop.pc \in {"connect", "conflict_settle", "retry_sleep", "lv_disc", "lv_sleep"}

\* a step of a notification task that writes the state or the Session
HandlerWrites ==
    /\ \/ \E ev \in Events : Deliver(ev)
       \/ \E h \in HandlerIds : HandlerDisconnected(h) \/ HandlerSettled(h)
    /\ state' # state \/ voice_client' # voice_client \/ elapsed' # elapsed

\* C6: while the control loop is suspended inside a transition, no
\* notification task writes the state or the Session.
C6_TransitionsSerialized == [][LoopInTransition => ~HandlerWrites]_vars

\* C7: the handling of OtherJoinedTarget that found the state CONNECTED ends
\* with the state BUSY_WAIT, no Session held and the keep-alive stopped.
C7_OtherJoinedEndsReleased ==
    [][(\E h \in HandlerIds :
           /\ handlers[h].pc = "lv_sleep"
           /\ handlers[h].ev = "OtherJoined"
           /\ HandlerSettled(h))
          => state' = "BUSY_WAIT" /\ ~SessionHeld' /\ ~playing']_vars

\* C8: the state becomes MANUAL_SLEEP only when no Session is held any more.
C8_ReleaseBeforeOverride ==
    [][state # "MANUAL_SLEEP" /\ state' = "MANUAL_SLEEP" => ~SessionHeld']_vars

\* a tick of a stay loop starts the release of the Session (line 199)
TickReleases ==
    /\ loop.pc \in StayLoops
    /\ loop'.pc \in {"lv_disc", "lv_sleep"}

\* C9 as stated: while the night window is active no tick of the running
\* loop releases the Session, whenever it was acquired; a tick that comes
\* after the window has ended finds at most one tick period left over and
\* releases the Session.
C9_NoTickReleaseInWindow ==
    [][/\ running /\ in_night_window => ~TickReleases
       /\ loop.pc = "stay_night" => loop.timer <= StayTickSec
       /\ (StayNightWake /\ ~in_night_window /\ state = "CONNECTED") => TickReleases]_vars

\* C9 as amended: a Session acquired while the night window is active is not
\* released by a tick of the running loop while the window stays active; when
\* the window ends, the sleep of the stay loop has at most one tick period
\* (30 s) left, and the tick that ends it starts the release of a Session the
\* loop still holds as CONNECTED instead of sleeping again.
C9_NightSessionKeptThenReleased ==
    [][/\ running /\ in_night_window /\ loop.pc = "stay_night" => ~TickReleases
       /\ loop.pc = "stay_night" => loop.timer <= StayTickSec
       /\ (StayNightWake /\ ~in_night_window) => loop'.pc # "stay_night"
       /\ (StayNightWake /\ ~in_night_window /\ state = "CONNECTED") => TickReleases]_vars

\* C9 witness: the window has closed during a sleep of the night stay loop;
\* the sleep is over and the Session is still held as CONNECTED.
C9_Witness_TickAfterWindow ==
    /\ loop.pc = "stay_night"
    /\ loop.timer = 0
    /\ state = "CONNECTED"
    /\ SessionHeld
    /\ running
    /\ window = "after"

\* C10: the release at the end of a stay leaves the state IDLE, and run()
\* calls join_vc no earlier than cooldown seconds after that release.
C10_CooldownBeforeJoin ==
    [][/\ JoinCalled => since_release = NoTime
       /\ LoopSettled => state' = "IDLE" /\ since_release' = 0]_vars

\* C10 witness: the last second of the cooldown that follows a release
C10_Witness_CoolingDown ==
    /\ loop.pc = "cooldown"
    /\ loop.timer = 1
    /\ since_release = cooldown - 1
    /\ state = "IDLE"
    /\ ~SessionHeld
    /\ running

\* the pcs at which run() is suspended inside gateway.join_vc
JoinPcs == {"connect", "conflict_settle", "retry_sleep"}

\* C11: after an "Already connected" conflict and its forced release, join_vc
\* goes on to another connect with the attempt counter at the value it had
\* before the conflict: the conflict never ends the acquisition.
C11_ConflictKeepsAttemptSlot ==
    [][ConflictSettled => loop'.pc \in JoinPcs /\ loop'.attempt = loop.attempt]_vars

\* the step in which join_vc returns without a client and run() gives up
\* the acquisition cycle (lines 168-173)
CycleFails == loop.pc \in JoinPcs /\ loop'.pc = "sleep_failed"

\* C12: join_vc starts with attempt 0 and every further connect call takes
\* the next attempt, so attempt + 1 is the number of connect calls made; it
\* never exceeds MaxAttempts, the cycle is given up only after the
\* MaxAttempts-th call has failed, and then the state is BUSY_WAIT with no
\* Session held.
C12_FailedCycleMakesMaxAttempts ==
    [][/\ JoinCalled => loop'.attempt = 0
       /\ (loop.pc \in JoinPcs \ {"connect"} /\ loop'.pc = "connect")
             => loop'.attempt = loop.attempt + 1
       /\ loop'.pc \in JoinPcs => loop'.attempt + 1 <= MaxAttempts
       /\ CycleFails => /\ loop.attempt + 1 = MaxAttempts
                        /\ state' = "BUSY_WAIT"
                        /\ ~SessionHeld']_vars

\* C12 witness: the third connect call has failed with a transient fault;
\* run() has set BUSY_WAIT and starts the busy-retry sleep without a Session
C12_Witness_CycleFailed ==
    /\ loop.pc = "sleep_failed"
    /\ loop.timer = busy_retry
    /\ state = "BUSY_WAIT"
    /\ ~SessionHeld
    /\ running

\* the step in which run() acquires a Session outside the night window and
\* computes the retention duration (lines 176-190)
FixedAcquired == loop.pc = "connect" /\ loop'.pc = "stay_fixed"

\* the step in which the fixed stay loop finds the duration elapsed (line
\* 192-193) and run() starts the release
ExpiryRelease ==
    /\ StayFixedWake
    /\ running /\ state = "CONNECTED"
    /\ TickReleases

\* C13: the duration computed at an acquisition outside the night window
\* lies in [base_stay, base_stay + jitter] and connected_since is set to the
\* instant of the acquisition; the duration does not change while the fixed
\* stay loop runs; the release on expiry happens only when at least that
\* many seconds have passed since the acquisition.
C13_RetentionDuration ==
    [][/\ FixedAcquired => /\ ~in_night_window
                           /\ loop'.stay_time \in base_stay..(base_stay + jitter)
                           /\ elapsed' = 0
       /\ (loop.pc = "stay_fixed" /\ loop'.pc = "stay_fixed")
             => loop'.stay_time = loop.stay_time
       /\ ExpiryRelease => elapsed # NoTime /\ elapsed >= loop.stay_time]_vars

\* C13 witness: a stay of the largest duration, base_stay + jitter, has
\* lasted that long and the tick that finds it expired is due
C13_Witness_LongestStayExpires ==
    /\ loop.pc = "stay_fixed"
    /\ loop.timer = 0
    /\ loop.stay_time = base_stay + jitter
    /\ jitter > 0
    /\ elapsed = loop.stay_time
    /\ state = "CONNECTED"
    /\ running

\* stop() has been called
StopRequested == stopper.pc # "idle"

\* run() has returned
LoopExited == loop.pc = "exited"

\* C14: once run() has returned, which it does only after stop() has cleared
\* `running`, no Session is held: the release that stop() forces is complete
\* before the loop exits.
C14_NoSessionOnceExited == LoopExited => StopRequested /\ ~SessionHeld

\* the state and the Session that one handling of notification ev, started
\* with state st and client c and run to its end, leaves behind
\* (on_voice_state_update with the leave_voice it awaits)
Handled(ev, st, c) ==
    IF ev = "MovedAway" /\ st # "MANUAL_SLEEP"
    THEN [state |-> "MANUAL_SLEEP", client |-> NoClient]
    ELSE IF ev = "MovedNone" /\ st = "MANUAL_SLEEP"
    THEN [state |-> "IDLE", client |-> c]
    ELSE IF ev = "OtherJoined" /\ st = "CONNECTED"
    THEN [state |-> "BUSY_WAIT", client |-> NoClient]
    ELSE [state |-> st, client |-> c]

\* no task of on_voice_state_update is suspended
AllHandled == \A h \in HandlerIds : handlers[h].pc = "free"

JoinStarts == loop' # loop /\ loop'.pc = "connect" /\ loop'.attempt = 0

\* a step of the join_vc call in flight
JoinStep == (\E o \in Outcomes : ConnectDone(o)) \/ ConflictSettled \/ RetryWake

\* C16: a join_vc call starts only as a step of run() itself, taken at the
\* top of an iteration and when no join_vc call is in flight; while a call
\* is in flight nothing but the steps of that call (and the passing of time)
\* moves run(), so there is never a second acquisition beside it.
C16_OneJoinInFlight ==
    [][/\ JoinStarts => /\ loop.pc \notin JoinPcs
                        /\ RunStart \/ WakeToTop \/ StayNightWake \/ StayFixedWake
       /\ (loop.pc \in JoinPcs /\ loop' # loop) => JoinStep \/ Tick]_vars

\* C16 witness: the second connect of a join_vc call is awaited while a
\* notification task and stop() are suspended in leave_voice
C16_Witness_JoinBesideOthers ==
    /\ loop.pc = "connect"
    /\ loop.attempt = 1
    /\ \E h \in HandlerIds : handlers[h].pc = "lv_sleep"
    /\ stopper.pc = "lv_sleep"

\* a step of run() in which an exception reaches the except clause of line
\* 203: the TypeError of line 192, or an error of the library
ErrorSurfaces ==
    \/ StayFixedWake /\ running /\ state = "CONNECTED" /\ elapsed = NoTime
    \/ QueryRaises
    \/ PlayRaises
    \/ ReleaseRaises

\* C17: an exception that surfaces in an iteration of run() does not end the
\* loop and does not change the state (an error of the keep-alive start
\* finds the CONNECTED that line 177 has just written); run() sleeps the
\* fixed ErrorSleepSec and then starts the next iteration with `while
\* self.running`, which evaluates the state as it is then.
C17_ErrorCaughtAtLoopBoundary ==
    [][/\ ErrorSurfaces => /\ loop'.pc = "err_sleep"
                           /\ loop'.timer = ErrorSleepSec
                           /\ state' = (IF loop.pc = "connect" THEN "CONNECTED" ELSE state)
                           /\ running' = running
       /\ (loop.pc # "err_sleep" /\ loop'.pc = "err_sleep") => ErrorSurfaces
       /\ (loop.pc = "err_sleep" /\ loop'.pc # "err_sleep")
             => WakeToTop /\ loop.timer = 0]_vars

\* C17 witness: the occupancy query has raised in BUSY_WAIT, the 60 s are
\* over and run() is about to start its next iteration in BUSY_WAIT
C17_Witness_BackoffOver ==
    /\ loop.pc = "err_sleep"
    /\ loop.timer = 0
    /\ state = "BUSY_WAIT"
    /\ running
    /\ AllHandled

\* a Session is held under the fixed retention policy
FixedSession == loop.pc = "stay_fixed" /\ state = "CONNECTED" /\ SessionHeld

\* C18: every Session held under the fixed retention policy is eventually
\* released (and hence no Session is held for ever), whatever the loop has
\* caught in the meantime.
C18_FixedSessionEventuallyReleased == FixedSession ~> ~SessionHeld

\* a step of run() that evaluates the top of an iteration (lines 143-166)
TopEvaluated == RunStart \/ WakeToTop \/ StayNightWake \/ StayFixedWake

\* C19: the state leaves BUSY_WAIT only for IDLE, in a step of run() at the
\* top of an iteration that finds no other identity in the target, or for
\* MANUAL_SLEEP, in the handling of SelfMovedAway(destination # target); an
\* iteration that starts in BUSY_WAIT with others in the target keeps the
\* state and sleeps busy_retry seconds.
C19_BusyWaitLeftOnlyWhenEmpty ==
    [][/\ (state = "BUSY_WAIT" /\ state' # "BUSY_WAIT")
             => \/ state' = "IDLE" /\ TopEvaluated /\ ~others
                \/ state' = "MANUAL_SLEEP" /\ Deliver("MovedAway")
       /\ (WakeToTop /\ running /\ state = "BUSY_WAIT" /\ others)
             => state' = "BUSY_WAIT" /\ loop' = Sleeping("sleep_busy", busy_retry)]_vars

\* C20: at every tick of the fixed stay loop that finds the module running
\* and CONNECTED, connected_since is set, so that line 192 can compare the
\* elapsed time with the duration: no leave_voice of a notification task or
\* of stop() has cleared it for a Session run() still holds as CONNECTED.
C20_TimestampSetWhileConnected ==
    [][(StayFixedWake /\ running /\ state = "CONNECTED") => elapsed # NoTime]_vars

\* C21: the notification by which the gateway reports the release that the
\* module itself made (the one on entry to MANUAL_SLEEP among them) does not
\* take the state out of MANUAL_SLEEP; that is left to the notification of
\* the operator's manual session ending.
C21_OwnReleaseKeepsOverride ==
    [][EchoDelivered => ~(state = "MANUAL_SLEEP" /\ state' # "MANUAL_SLEEP")]_vars

\* C22: at the instant run() calls join_vc the state is neither MANUAL_SLEEP
\* nor BUSY_WAIT (an iteration that starts in BUSY_WAIT and finds the target
\* empty has set IDLE first), and an iteration evaluated in MANUAL_SLEEP
\* goes to sleep, or ends the loop after stop(), without a gateway call and
\* without a change of the state, of the Session or of the keep-alive.
C22_NoJoinInOverrideOrBusyWait ==
    [][/\ JoinCalled => /\ state # "MANUAL_SLEEP"
                        /\ state' \notin {"MANUAL_SLEEP", "BUSY_WAIT"}
       /\ (TopEvaluated /\ state = "MANUAL_SLEEP")
             => /\ loop'.pc \in {"sleep_manual", "exited"}
                /\ state' = state
                /\ voice_client' = voice_client
                /\ playing' = playing]_vars

\* C22 witness: an iteration has been evaluated in MANUAL_SLEEP while the
\* Session that the override releases was still connected; run() has begun
\* the 10 s sleep
C22_Witness_TickInOverride ==
    /\ loop.pc = "sleep_manual"
    /\ loop.timer = ManualSleepSec
    /\ state = "MANUAL_SLEEP"
    /\ SessionHeld
    /\ running

====
